---- MODULE Spec2Model ----
(***************************************************************************)
(* Veil Browser: the address-bar resolution, the web-view notifications    *)
(* and the frameless-window drag/resize handling of the two VeilBrowser    *)
(* classes of the repository, src/main.py ("main") and                     *)
(* src/veil_browser/browser_window.py ("pkg"), and the history log that    *)
(* constants.py names (HISTORY_FILE).                                      *)
(*                                                                         *)
(* Text is a sequence of one-character strings, so that strip, startswith, *)
(* the membership tests and replace are computed as the code computes      *)
(* them.  A run picks one of the two classes in Init (impl) and then       *)
(* delivers events to its handlers.                                        *)
(***************************************************************************)
EXTENDS Integers, Sequences, FiniteSets, TLC

VARIABLES
    impl,           \* which VeilBrowser class is running: "main" or "pkg"
    address_bar,    \* QLineEdit text of self.address_bar
    nav,            \* what the last address-bar event did (see NavNone)
    view_url,       \* self.browser.url(), in encoded form
    back_btn,       \* self.back_btn.isEnabled()
    forward_btn,    \* self.forward_btn.isEnabled()
    writer,         \* who wrote the address-bar text last: "none", "user",
                    \* "navigate" (navigate_to_url) or "shell" (a handler
                    \* of a web-view notification)
    nLoading,       \* number of " - Loading (N%)" suffixes in the bar
    history_file,   \* content of HISTORY_FILE
    appended,       \* the entries written to HISTORY_FILE, in call order
    pos,            \* window origin (frameGeometry().topLeft())
    size,           \* window size (width(), height())
    drag_position,  \* self._drag_position
    resizing,       \* self._resizing
    ev,             \* the last pointer event delivered and what it did
    pre,            \* pos, size, drag_position, resizing before that event
    gesture,        \* the last left pointer-down and the moves since
    nEvents         \* number of pointer events delivered so far

navVars == <<address_bar, nav, view_url, back_btn, forward_btn, writer,
            nLoading>>
winVars == <<pos, size, drag_position, resizing, ev, pre, gesture, nEvents>>
histVars == <<history_file, appended>>
vars == <<impl, address_bar, nav, view_url, back_btn, forward_btn, writer,
          nLoading, history_file, appended, pos, size, drag_position,
          resizing, ev, pre, gesture, nEvents>>

\* ------------------------------------------------------------------ bounds

\* Longest address-bar text the user types, in tokens of Tokens.
MaxToks == 3

\* Number of pointer events delivered in one run.
MaxEvents == 4

\* Number of load-progress notices below 100 percent that pile up in the
\* address bar before it is written afresh.
MaxLoading == 2

\* Number of entries appended to the history log in one run.
MaxAppends == 3

\* ------------------------------------------------------------------ text

S_http == <<"h", "t", "t", "p">>
S_https == <<"h", "t", "t", "p", "s">>
S_httpSS == <<"h", "t", "t", "p", ":", "/", "/">>
S_httpsSS == <<"h", "t", "t", "p", "s", ":", "/", "/">>
S_fileSS == <<"f", "i", "l", "e", ":", "/", "/">>
S_www == <<"w", "w", "w", ".">>

\* f'https://www.google.com/search?q=...' of main.py
SearchPrefixMain ==
    S_httpsSS \o S_www
      \o <<"g", "o", "o", "g", "l", "e", ".", "c", "o", "m">>
      \o <<"/", "s", "e", "a", "r", "c", "h", "?", "q", "=">>

\* f'https://google.com/search?q=...' of browser_window.py
SearchPrefixPkg ==
    S_httpsSS
      \o <<"g", "o", "o", "g", "l", "e", ".", "c", "o", "m">>
      \o <<"/", "s", "e", "a", "r", "c", "h", "?", "q", "=">>

\* self.address_bar.setText("Invalid URL")
InvalidURLText == <<"I", "n", "v", "a", "l", "i", "d", " ", "U", "R", "L">>

\* The pieces a typed text is made of: the prefixes the code tests for, a
\* letter, a space, a dot and a character reserved in a query string.
Tokens == {S_httpSS, S_httpsSS, S_fileSS, S_www, <<"a">>, <<" ">>, <<".">>, <<"&">>}

RECURSIVE TokStrings(_)
TokStrings(n) ==
    IF n = 0 THEN {<<>>}
    ELSE LET S == TokStrings(n - 1) IN S \cup {s \o t : s \in S, t \in Tokens}

\* Every text the user may leave in the address bar.
Inputs == TokStrings(MaxToks)

\* str.startswith(p)
StartsWith(s, p) == Len(s) >= Len(p) /\ SubSeq(s, 1, Len(p)) = p

\* c in s
Contains(s, c) == \E i \in 1..Len(s) : s[i] = c

IsSpace(c) == c = " "

\* str.strip(): drop the whitespace at both ends.
RECURSIVE LStrip(_)
LStrip(s) == IF s # <<>> /\ IsSpace(Head(s)) THEN LStrip(Tail(s)) ELSE s

RECURSIVE RStrip(_)
RStrip(s) ==
    IF s # <<>> /\ IsSpace(s[Len(s)]) THEN RStrip(SubSeq(s, 1, Len(s) - 1)) ELSE s

\* Mutant of Strip: the text is used as typed.
StripNothing(s) == s

\* self.address_bar.text().strip()
Strip(s) == RStrip(LStrip(s))

\* raw_url.replace(" ", "+")
ReplaceSpacePlus(s) == [i \in 1..Len(s) |-> IF s[i] = " " THEN "+" ELSE s[i]]

\* ------------------------------------------------------------ QUrl(raw_url)

\* Characters of a host name every Qt build accepts.
HostLetters ==
    {"a", "c", "e", "f", "g", "h", "i", "l", "m", "o", "p", "s", "t", "w"}

\* The text after the first "://" of u.
RECURSIVE AfterScheme(_)
AfterScheme(u) ==
    IF Len(u) < 3 THEN <<>>
    ELSE IF SubSeq(u, 1, 3) = <<":", "/", "/">> THEN SubSeq(u, 4, Len(u))
    ELSE AfterScheme(Tail(u))

\* The authority: up to the first "/", "?" or "#".
RECURSIVE HostOf(_)
HostOf(r) ==
    IF r = <<>> \/ Head(r) \in {"/", "?", "#"} THEN <<>>
    ELSE <<Head(r)>> \o HostOf(Tail(r))

\* Letters in non-empty labels separated by single dots.
PlainHost(h) ==
    /\ h # <<>>
    /\ \A i \in 1..Len(h) : h[i] \in HostLetters \cup {"."}
    /\ h[1] # "." /\ h[Len(h)] # "."
    /\ \A i \in 1..(Len(h) - 1) : ~(h[i] = "." /\ h[i + 1] = ".")

\* qurl.isValid() for QUrl(u) in tolerant mode.  An http(s) URL with a plain
\* host is valid in every Qt build, whatever its path and query hold; for
\* any other text (empty host, a host with a space, "&" or ":", a file URL)
\* the answer is the Qt library's and differs between its versions, so
\* both answers are possible.
QUrlValidOutcomes(u) ==
    IF /\ (StartsWith(u, S_httpSS) \/ StartsWith(u, S_httpsSS))
       /\ PlainHost(HostOf(AfterScheme(u)))
    THEN {TRUE}
    ELSE BOOLEAN

\* --------------------------------------------------------- address bar

\* QUrl(u), as sent to the network (toEncoded): tolerant parsing
\* percent-encodes a space; the other characters of Tokens are kept.
RECURSIVE QUrlToEncoded(_)
QUrlToEncoded(u) ==
    IF u = <<>> THEN <<>>
    ELSE (IF Head(u) = " " THEN <<"%", "2", "0">> ELSE <<Head(u)>>)
           \o QUrlToEncoded(Tail(u))

\* The initial page of each class: the only URL the source configures.
HomeUrlMain ==
    S_httpsSS \o S_www \o <<"g", "o", "o", "g", "l", "e", ".", "c", "o", "m">>
HomeUrlPkg == S_httpsSS \o <<"g", "o", "o", "g", "l", "e", ".", "c", "o", "m">>

HomeUrl == IF impl = "main" THEN HomeUrlMain ELSE HomeUrlPkg

\* QUrl.toString() of the URL whose encoded form is u: the default
\* formatting (PrettyDecoded) shows an encoded space as a space.
RECURSIVE QUrlToString(_)
QUrlToString(u) ==
    IF u = <<>> THEN <<>>
    ELSE IF Len(u) >= 3 /\ SubSeq(u, 1, 3) = <<"%", "2", "0">>
         THEN <<" ">> \o QUrlToString(SubSeq(u, 4, Len(u)))
         ELSE <<Head(u)>> \o QUrlToString(Tail(u))

\* What the last address-bar event did: the event (op), the text the bar
\* held when it arrived (for an edit: the text it left), the URLs it handed
\* to the view (loads), who had written that text (by), the notification's
\* arguments (url, progress, ok), the view's canGoBack() and canGoForward()
\* answers at that moment (can) and the buttons' enabled flags before (was).
NavRec(op, text, loads, by) ==
    [op |-> op, text |-> text, loads |-> loads, by |-> by, url |-> <<>>,
     progress |-> 0, ok |-> TRUE, can |-> <<FALSE, FALSE>>,
     was |-> <<back_btn, forward_btn>>]

NavNone ==
    [op |-> "none", text |-> <<>>, loads |-> <<>>, by |-> "user",
     url |-> <<>>, progress |-> 0, ok |-> TRUE, can |-> <<FALSE, FALSE>>,
     was |-> <<TRUE, TRUE>>]

\* The user types one more piece of text at the end of the address bar
\* (QLineEdit).
UserType ==
    \E t \in Tokens :
        /\ address_bar \o t \in Inputs
        /\ address_bar' = address_bar \o t
        /\ nav' = NavRec("edit", address_bar \o t, <<>>, "user")
        /\ writer' = "user"
        /\ nLoading' = 0
        /\ UNCHANGED <<impl, view_url, back_btn, forward_btn, winVars,
                       histVars>>

\* The user clears the address bar.
UserClear ==
    /\ address_bar' = <<>>
    /\ nav' = NavRec("edit", <<>>, <<>>, "user")
    /\ writer' = "user"
    /\ nLoading' = 0
    /\ UNCHANGED <<impl, view_url, back_btn, forward_btn, winVars, histVars>>

\* main.py, navigate_to_url, lines 468-473: the URL built from the
\* stripped, non-empty text.
ResolveMain(raw_url) ==
    IF ~(\/ StartsWith(raw_url, S_httpSS)
         \/ StartsWith(raw_url, S_httpsSS)
         \/ StartsWith(raw_url, S_fileSS))
    THEN IF Contains(raw_url, " ") \/ ~Contains(raw_url, ".")
         THEN SearchPrefixMain \o ReplaceSpacePlus(raw_url)
         ELSE S_httpsSS \o raw_url
    ELSE raw_url

\* Mutant of EmptyInput: the empty text is not told apart.
EmptyInputNever(raw_url) == FALSE

\* main.py, navigate_to_url, line 461: `if not raw_url`.
EmptyInput(raw_url) == raw_url = <<>>

\* main.py, navigate_to_url (Enter in the address bar, or the Go button).
\* No statement of the inner try block raises on a str, so its except
\* branch (the fallback search) is never taken.
navigate_to_url ==
    /\ impl = "main"
    /\ LET raw_url == Strip(address_bar) IN
         IF EmptyInput(raw_url)
         THEN /\ nav' = NavRec("navigate", address_bar, <<>>, writer)
              /\ UNCHANGED <<address_bar, writer, nLoading>>
         ELSE \E valid \in QUrlValidOutcomes(ResolveMain(raw_url)) :
                IF valid
                THEN /\ nav' = NavRec("navigate", address_bar,
                                      <<ResolveMain(raw_url)>>, writer)
                     /\ UNCHANGED <<address_bar, writer, nLoading>>
                ELSE /\ nav' = NavRec("navigate", address_bar, <<>>, writer)
                     /\ address_bar' = InvalidURLText
                     /\ writer' = "navigate"
                     /\ nLoading' = 0
    /\ UNCHANGED <<impl, view_url, back_btn, forward_btn, winVars, histVars>>

\* browser_window.py, navigate, lines 108-110: the URL handed to QUrl.
ResolvePkg(url) ==
    IF ~(StartsWith(url, S_http) \/ StartsWith(url, S_https))
    THEN SearchPrefixPkg \o url
    ELSE url

\* browser_window.py, navigate (returnPressed of the address bar).
navigate ==
    /\ impl = "pkg"
    /\ nav' = NavRec("navigate", address_bar, <<ResolvePkg(address_bar)>>,
                     writer)
    /\ UNCHANGED <<impl, address_bar, view_url, back_btn, forward_btn, writer,
                   nLoading, winVars, histVars>>

\* ------------------------------------------------ web-view notifications

\* The pages the view gets to (encoded URLs): one without and one with an
\* encoded space in its path.
PageUrls ==
    {S_httpsSS \o <<"a", ".", "a">>,
     S_httpsSS \o <<"a", ".", "a", "/", "%", "2", "0", "a">>}

\* The loadProgress values delivered.
ProgressValues == {0, 50, 100}

Digits == <<"0", "1", "2", "3", "4", "5", "6", "7", "8", "9">>

\* str(n) of a natural number.
RECURSIVE IntToStr(_)
IntToStr(n) ==
    IF n < 10 THEN <<Digits[n + 1]>>
    ELSE IntToStr(n \div 10) \o <<Digits[(n % 10) + 1]>>

\* main.py, line 445: f" - Loading ({progress}%)".
LoadingSuffix(progress) ==
    <<" ", "-", " ", "L", "o", "a", "d", "i", "n", "g", " ", "(">>
        \o IntToStr(progress) \o <<"%", ")">>

\* main.py, line 548.
LoadFailedText == <<"L", "o", "a", "d", " ", "F", "a", "i", "l", "e", "d">>

\* main.py, update_address_bar, lines 506-516, called with the non-empty URL url
\* while the view answers canGoBack() = cb and canGoForward() = cf:
\* line 506 takes url.toString(), and no
\* statement of the try block raises.
SetAddressBar(url, cb, cf) ==
    /\ address_bar' = QUrlToString(url)
    /\ back_btn' = cb
    /\ forward_btn' = cf
    /\ writer' = "shell"
    /\ nLoading' = 0

\* main.py, update_address_bar as the slot of page.urlChanged (line 330):
\* the view has got to url.
update_address_bar ==
    /\ impl = "main"
    /\ \E url \in PageUrls, cb \in BOOLEAN, cf \in BOOLEAN :
         /\ view_url' = url
         /\ SetAddressBar(url, cb, cf)
         /\ nav' = [NavRec("urlChanged", address_bar, <<>>, writer)
                      EXCEPT !.url = url, !.can = <<cb, cf>>]
    /\ UNCHANGED <<impl, winVars, histVars>>

\* main.py, handle_load_progress, lines 441-448 (slot of page.loadProgress).
handle_load_progress ==
    /\ impl = "main"
    /\ \E progress \in ProgressValues, cb \in BOOLEAN, cf \in BOOLEAN :
         /\ nav' = [NavRec("loadProgress", address_bar, <<>>, writer)
                      EXCEPT !.progress = progress, !.url = view_url,
                             !.can = <<cb, cf>>]
         /\ IF progress < 100
            THEN /\ nLoading < MaxLoading
                 /\ address_bar' = address_bar \o LoadingSuffix(progress)
                 /\ writer' = "shell"
                 /\ nLoading' = nLoading + 1
                 /\ UNCHANGED <<back_btn, forward_btn>>
            ELSE SetAddressBar(view_url, cb, cf)
    /\ UNCHANGED <<impl, view_url, winVars, histVars>>

\* main.py, on_load_finished, lines 535-548 (slot of page.loadFinished).
\* runJavaScript changes no field of the window.
on_load_finished ==
    /\ impl = "main"
    /\ \E ok \in BOOLEAN :
         /\ nav' = [NavRec("loadFinished", address_bar, <<>>, writer)
                      EXCEPT !.ok = ok, !.url = view_url]
         /\ IF ok
            THEN UNCHANGED <<address_bar, writer, nLoading>>
            ELSE /\ address_bar' = LoadFailedText
                 /\ writer' = "shell"
                 /\ nLoading' = 0
    /\ UNCHANGED <<impl, view_url, back_btn, forward_btn, winVars, histVars>>

\* browser_window.py, update_url, lines 113-114 (slot of
\* web_view.urlChanged, line 82); cb and cf are the answers the view would
\* give, which the slot does not ask for.
update_url ==
    /\ impl = "pkg"
    /\ \E url \in PageUrls, cb \in BOOLEAN, cf \in BOOLEAN :
         /\ view_url' = url
         /\ address_bar' = QUrlToString(url)
         /\ writer' = "shell"
         /\ nav' = [NavRec("urlChanged", address_bar, <<>>, writer)
                      EXCEPT !.url = url, !.can = <<cb, cf>>]
    /\ UNCHANGED <<impl, back_btn, forward_btn, nLoading, winVars, histVars>>

\* ------------------------------------------------------------- the window

\* self._resize_margin
ResizeMargin == 10

\* self.resize(1200, 800)
InitWidth == 1200
InitHeight == 800

\* self.minimumWidth(), self.minimumHeight(): the source sets no minimum
\* size, so these are QWidget's defaults.
MinimumWidth == 0
MinimumHeight == 0

Pt(x, y) == [x |-> x, y |-> y]
PtAdd(a, b) == Pt(a.x + b.x, a.y + b.y)
PtSub(a, b) == Pt(a.x - b.x, a.y - b.y)
Sz(w, h) == [w |-> w, h |-> h]
Max(a, b) == IF a >= b THEN a ELSE b

\* QPoint()
ZeroPt == Pt(0, 0)

\* Where the window manager (pkg) or center_window (main, on a 1920x1080
\* screen) puts the 1200x800 window.
InitOrigin == Pt(360, 140)

\* QWidget.resize(w, h): Qt keeps the size at or above minimumSize().
QtResize(w, h) == Sz(Max(MinimumWidth, w), Max(MinimumHeight, h))

\* self.setFixedHeight(30) of the title bar, and the margin
\* main_layout.setContentsMargins(1, 1, 1, 1) puts around it.
TitleBarHeight == 30
LayoutMargin == 1

\* event.position() of the pointer-downs delivered: inside each margin, on
\* each margin boundary, and in the body; only points inside the window.
PressPoints(sz) ==
    {p \in {Pt(5, 50), Pt(50, 5), Pt(sz.w - 5, 50), Pt(50, sz.h - 5),
            Pt(ResizeMargin, 50), Pt(50, ResizeMargin),
            Pt(sz.w - ResizeMargin, 50), Pt(50, sz.h - ResizeMargin),
            Pt(50, 50), Pt(50, 20)} :
        p.x >= 0 /\ p.x < sz.w /\ p.y >= 0 /\ p.y < sz.h}

\* The widgets whose pointer-downs run main.py's mousePressEvent: the
\* window itself, and the title bar, whose handler __init__ replaces by the
\* window's (main.py:242); event.position() is relative to the widget.
\* The top-left corner of each widget inside the window:
WidgetOffset(via) ==
    IF via = "title_bar" THEN Pt(LayoutMargin, LayoutMargin) ELSE ZeroPt

\* event.position() p lies inside the widget.
InsideWidget(via, p, sz) ==
    via = "title_bar" =>
        p.y < TitleBarHeight /\ p.x < sz.w - 2 * LayoutMargin

\* event.globalPosition() of the pointer-moves delivered.
MovePoints == {Pt(0, 0), Pt(400, 200), Pt(1600, 900)}

EvNone == [type |-> "none", left |-> FALSE, p |-> ZeroPt, g |-> ZeroPt,
           raised |-> FALSE]

Snapshot == [pos |-> pos, size |-> size, drag_position |-> drag_position,
             resizing |-> resizing]

\* No left pointer-down yet.
GestureNone == [state |-> "none", origin |-> ZeroPt, ptr |-> ZeroPt,
                p |-> ZeroPt, size |-> Sz(0, 0), moves |-> 0,
                prev |-> ZeroPt, last |-> ZeroPt, clamped |-> FALSE]

\* The gesture after a pointer-down at event.position() p, global position
\* g: a left one starts a gesture at origin pos.
GestureAfterPress(left, p, g) ==
    IF left
    THEN [state |-> "active", origin |-> pos, ptr |-> g, p |-> p,
          size |-> size, moves |-> 0, prev |-> g, last |-> g,
          clamped |-> FALSE]
    ELSE gesture

\* main.py, mouseMoveEvent, lines 408-409: the resize step to global g is
\* held at the minimum size.
StepClamped(g) ==
    /\ impl = "main"
    /\ resizing
    /\ \/ size.w + (g.x - drag_position.x) < MinimumWidth
       \/ size.h + (g.y - drag_position.y) < MinimumHeight

\* Where the pointer is moved to: one of MovePoints, or back to where the
\* last left pointer-down was.
MoveTargets == MovePoints \cup {gesture.ptr}

\* ... after a pointer-move to global g: without the left button held it
\* ends the gesture, with it the gesture (if one is active) goes on.
GestureAfterMove(left, g) ==
    IF gesture.state # "active" THEN gesture
    ELSE IF left
         THEN [gesture EXCEPT !.moves = @ + 1, !.prev = gesture.last,
                              !.last = g, !.clamped = @ \/ StepClamped(g)]
         ELSE [gesture EXCEPT !.state = "ended"]

\* ... after a pointer-up.
GestureAfterRelease ==
    IF gesture.state = "active" THEN [gesture EXCEPT !.state = "ended"]
    ELSE gesture

\* What every pointer event records beside the handler's own effect.
Delivered(e, g2) ==
    /\ nEvents < MaxEvents
    /\ nEvents' = nEvents + 1
    /\ ev' = e
    /\ pre' = Snapshot
    /\ gesture' = g2
    /\ UNCHANGED <<impl, navVars, histVars>>

\* Mutant of InResizeAreaMain: the margin boundary counts as resize area.
InResizeAreaInclusive(p, sz) ==
    \/ p.x <= ResizeMargin
    \/ p.x >= sz.w - ResizeMargin
    \/ p.y <= ResizeMargin
    \/ p.y >= sz.h - ResizeMargin

\* main.py, mousePressEvent, lines 386-387: the press is in a resize area.
InResizeAreaMain(p, sz) ==
    \/ p.x < ResizeMargin
    \/ p.x > sz.w - ResizeMargin
    \/ p.y < ResizeMargin
    \/ p.y > sz.h - ResizeMargin

\* main.py, mousePressEvent.
main_mousePressEvent ==
    /\ impl = "main"
    /\ \E left \in BOOLEAN, via \in {"window", "title_bar"},
          p \in PressPoints(size) :
        LET globalPosition == PtAdd(PtAdd(pos, WidgetOffset(via)), p) IN
        /\ InsideWidget(via, p, size)
        /\ Delivered([type |-> "press", left |-> left, p |-> p,
                      g |-> globalPosition, raised |-> FALSE],
                     GestureAfterPress(left, p, globalPosition))
        /\ IF left
           THEN IF InResizeAreaMain(p, size)
                THEN /\ resizing' = TRUE
                     /\ drag_position' = globalPosition
                ELSE /\ drag_position' = PtSub(globalPosition, pos)
                     /\ UNCHANGED resizing
           ELSE UNCHANGED <<drag_position, resizing>>
        /\ UNCHANGED <<pos, size>>

\* Mutant of main_mouseMoveEvent: a resize that began at the left or top
\* edge moves that edge, so the origin follows the pointer.
main_mouseMoveEvent_MovesEdge ==
    /\ impl = "main"
    /\ \E left \in BOOLEAN, g \in MoveTargets :
        /\ Delivered([type |-> "move", left |-> left, p |-> ZeroPt, g |-> g,
                      raised |-> FALSE],
                     GestureAfterMove(left, g))
        /\ IF left
           THEN IF resizing
                THEN LET diff == PtSub(g, drag_position) IN
                     /\ size' = QtResize(Max(MinimumWidth, size.w + diff.x),
                                         Max(MinimumHeight, size.h + diff.y))
                     /\ pos' = Pt(IF gesture.p.x < ResizeMargin
                                  THEN pos.x + diff.x ELSE pos.x,
                                  IF gesture.p.y < ResizeMargin
                                  THEN pos.y + diff.y ELSE pos.y)
                     /\ drag_position' = g
                     /\ UNCHANGED resizing
                ELSE /\ pos' = PtSub(g, drag_position)
                     /\ UNCHANGED <<size, drag_position, resizing>>
           ELSE /\ resizing' = FALSE
                /\ UNCHANGED <<pos, size, drag_position>>

\* Mutant of main_mouseMoveEvent: the resize step does not store the
\* pointer position it has used.
main_mouseMoveEvent_KeepsAnchor ==
    /\ impl = "main"
    /\ \E left \in BOOLEAN, g \in MoveTargets :
        /\ Delivered([type |-> "move", left |-> left, p |-> ZeroPt, g |-> g,
                      raised |-> FALSE],
                     GestureAfterMove(left, g))
        /\ IF left
           THEN IF resizing
                THEN LET diff == PtSub(g, drag_position) IN
                     /\ size' = QtResize(Max(MinimumWidth, size.w + diff.x),
                                         Max(MinimumHeight, size.h + diff.y))
                     /\ UNCHANGED <<pos, drag_position, resizing>>
                ELSE /\ pos' = PtSub(g, drag_position)
                     /\ UNCHANGED <<size, drag_position, resizing>>
           ELSE /\ resizing' = FALSE
                /\ UNCHANGED <<pos, size, drag_position>>

\* main.py, mouseMoveEvent.
main_mouseMoveEvent ==
    /\ impl = "main"
    /\ \E left \in BOOLEAN, g \in MoveTargets :
        /\ Delivered([type |-> "move", left |-> left, p |-> ZeroPt, g |-> g,
                      raised |-> FALSE],
                     GestureAfterMove(left, g))
        /\ IF left
           THEN IF resizing
                THEN LET diff == PtSub(g, drag_position) IN
                     /\ size' = QtResize(Max(MinimumWidth, size.w + diff.x),
                                         Max(MinimumHeight, size.h + diff.y))
                     /\ drag_position' = g
                     /\ UNCHANGED <<pos, resizing>>
                ELSE /\ pos' = PtSub(g, drag_position)
                     /\ UNCHANGED <<size, drag_position, resizing>>
           ELSE /\ resizing' = FALSE
                /\ UNCHANGED <<pos, size, drag_position>>

\* main.py, mouseReleaseEvent.
main_mouseReleaseEvent ==
    /\ impl = "main"
    /\ Delivered([type |-> "release", left |-> FALSE, p |-> ZeroPt,
                  g |-> ZeroPt, raised |-> FALSE],
                 GestureAfterRelease)
    /\ resizing' = FALSE
    /\ UNCHANGED <<pos, size, drag_position>>

\* browser_window.py, mousePressEvent, lines 93-98: the value of _resizing.
InResizeAreaPkg(p, sz) ==
    \/ p.x < ResizeMargin
    \/ p.y < ResizeMargin
    \/ sz.w - p.x < ResizeMargin
    \/ sz.h - p.y < ResizeMargin

\* browser_window.py, mousePressEvent.
pkg_mousePressEvent ==
    /\ impl = "pkg"
    /\ \E left \in BOOLEAN, p \in PressPoints(size) :
        /\ Delivered([type |-> "press", left |-> left, p |-> p,
                      g |-> PtAdd(pos, p), raised |-> FALSE],
                     GestureAfterPress(left, p, PtAdd(pos, p)))
        /\ IF left
           THEN /\ drag_position' = PtAdd(pos, p)
                /\ resizing' = InResizeAreaPkg(p, size)
           ELSE UNCHANGED <<drag_position, resizing>>
        /\ UNCHANGED <<pos, size>>

\* browser_window.py, mouseMoveEvent.  self.resize is called with the two
\* floats of globalPosition(): the binding converts them to int under
\* Python < 3.10 and raises TypeError, which escapes the handler, from
\* Python 3.10 on; `coerced` is which of the two the build does.
pkg_mouseMoveEvent ==
    /\ impl = "pkg"
    /\ \E left \in BOOLEAN, g \in MoveTargets, coerced \in BOOLEAN :
        /\ Delivered([type |-> "move", left |-> left, p |-> ZeroPt, g |-> g,
                      raised |-> left /\ resizing /\ ~coerced],
                     GestureAfterMove(left, g))
        /\ IF left
           THEN IF resizing
                THEN /\ size' = IF coerced THEN QtResize(g.x, g.y) ELSE size
                     /\ UNCHANGED <<pos, drag_position, resizing>>
                ELSE /\ pos' = PtSub(g, drag_position)
                     /\ UNCHANGED <<size, drag_position, resizing>>
           ELSE UNCHANGED <<pos, size, drag_position, resizing>>

\* browser_window.py defines no mouseReleaseEvent: a pointer-up reaches
\* QMainWindow's own handler, which changes none of the class's fields.
pkg_mouseReleaseEvent ==
    /\ impl = "pkg"
    /\ Delivered([type |-> "release", left |-> FALSE, p |-> ZeroPt,
                  g |-> ZeroPt, raised |-> FALSE],
                 GestureAfterRelease)
    /\ UNCHANGED <<pos, size, drag_position, resizing>>

\* ------------------------------------------------------- specifications

\* The state after __init__ of either class.
\* ---------------------------------------------------------- history log
\* The repository names the history file (constants.py, HISTORY_FILE) and
\* holds no code that reads or writes it: HistoryStore is modelled from its
\* specification.  A timestamp is <<day, time of day>>; the log is the JSON
\* object of the file, a sequence of [date, entries] members in the order
\* they were added.

HistoryUrls == PageUrls
Days == {1, 2}
Times == {1, 2, 3}
Timestamps == Days \X Times

\* The date key of a timestamp: the timestamp truncated to its date.
DateOf(ts) == ts[1]

\* Timestamp order.
TsLeq(a, b) == a[1] < b[1] \/ (a[1] = b[1] /\ a[2] <= b[2])

Entry(url, ts) == [url |-> url, timestamp |-> ts]

\* e put into the sorted sequence es, after the entries not later than it.
RECURSIVE InsertByTimestamp(_, _)
InsertByTimestamp(e, es) ==
    IF es = <<>> THEN <<e>>
    ELSE IF TsLeq(es[Len(es)].timestamp, e.timestamp) THEN Append(es, e)
    ELSE Append(InsertByTimestamp(e, SubSeq(es, 1, Len(es) - 1)), es[Len(es)])

\* Mutant of SortByTimestamp: the day's entries are left in call order.
SortNothing(es) == es

\* The day's entries re-sorted by timestamp (a stable sort).
RECURSIVE SortByTimestamp(_)
SortByTimestamp(es) ==
    IF es = <<>> THEN <<>>
    ELSE InsertByTimestamp(es[Len(es)],
                           SortByTimestamp(SubSeq(es, 1, Len(es) - 1)))

\* HISTORY_FILE holds bytes that are no JSON object.
HistoryCorrupt == [state |-> "corrupt", log |-> <<>>]

\* The log read from the file: a missing or corrupt file is an empty log.
ReadLog(file) == IF file.state = "ok" THEN file.log ELSE <<>>

\* The entries stored under date d, empty when the log has no such key.
EntriesOf(log, d) ==
    IF \E i \in 1..Len(log) : log[i].date = d
    THEN log[CHOOSE i \in 1..Len(log) : log[i].date = d].entries
    ELSE <<>>

\* log with es stored under date d.
PutDay(log, d, es) ==
    IF \E i \in 1..Len(log) : log[i].date = d
    THEN [i \in 1..Len(log) |->
            IF log[i].date = d THEN [date |-> d, entries |-> es] ELSE log[i]]
    ELSE Append(log, [date |-> d, entries |-> es])

\* The log after append(url, ts): the entry is added to its day, and that
\* day's entries are re-sorted.
AppendedLog(log, url, ts) ==
    PutDay(log, DateOf(ts),
           SortByTimestamp(Append(EntriesOf(log, DateOf(ts)), Entry(url, ts))))

\* HistoryStore.append(url, timestamp): read, add, sort, write the whole
\* file.  A write that fails is reported and leaves the file as it was.
HistoryStore_append ==
    /\ Len(appended) < MaxAppends
    /\ \E url \in HistoryUrls, ts \in Timestamps, written \in BOOLEAN :
         IF written
         THEN /\ history_file' =
                    [state |-> "ok",
                     log |-> AppendedLog(ReadLog(history_file), url, ts)]
              /\ appended' = Append(appended, Entry(url, ts))
         ELSE UNCHANGED histVars
    /\ UNCHANGED <<impl, navVars, winVars>>

\* HISTORY_FILE does not exist.
HistoryMissing == [state |-> "missing", log |-> <<>>]

\* The window after __init__, before any event.
InitWindow ==
    /\ impl \in {"main", "pkg"}
    /\ address_bar = <<>>
    /\ nav = NavNone
    /\ view_url = HomeUrl
    /\ back_btn = TRUE
    /\ forward_btn = TRUE
    /\ writer = "none"
    /\ nLoading = 0
    /\ pos = InitOrigin
    /\ size = Sz(InitWidth, InitHeight)
    /\ drag_position = ZeroPt
    /\ resizing = FALSE
    /\ ev = EvNone
    /\ pre = [pos |-> InitOrigin, size |-> Sz(InitWidth, InitHeight),
              drag_position |-> ZeroPt, resizing |-> FALSE]
    /\ gesture = GestureNone
    /\ nEvents = 0

\* A first run: no history file yet.
Init ==
    /\ InitWindow
    /\ history_file = HistoryMissing
    /\ appended = <<>>

\* The history file as a run may find it: missing, corrupt, or an empty log.
InitHist ==
    /\ InitWindow
    /\ history_file \in {HistoryMissing, HistoryCorrupt,
                         [state |-> "ok", log |-> <<>>]}
    /\ appended = <<>>

\* The address bar: the user's edits and the navigate triggers.
NextNav ==
    \/ UserType
    \/ UserClear
    \/ navigate_to_url
    \/ navigate

\* The notifications of the web view, with the navigate triggers and the
\* user clearing the bar between them (what the user types is NextNav's).
NextShell ==
    \/ UserClear
    \/ navigate_to_url
    \/ navigate
    \/ update_address_bar
    \/ handle_load_progress
    \/ on_load_finished
    \/ update_url

\* The pointer events on the window.
NextWin ==
    \/ main_mousePressEvent
    \/ main_mouseMoveEvent
    \/ main_mouseReleaseEvent
    \/ pkg_mousePressEvent
    \/ pkg_mouseMoveEvent
    \/ pkg_mouseReleaseEvent

\* The calls of the history store.
NextHist == HistoryStore_append

Next == NextNav \/ NextShell \/ NextWin \/ NextHist

\* The address bar and the window share no field, so each is checked with
\* the other at rest.
SpecNav == Init /\ [][NextNav]_vars
SpecShell == Init /\ [][NextShell]_vars
SpecWin == Init /\ [][NextWin]_vars
SpecHist == InitHist /\ [][NextHist]_vars
Spec == Init /\ [][Next]_vars

\* ------------------------------------------------- address bar: properties

SearchPrefix == IF impl = "main" THEN SearchPrefixMain ELSE SearchPrefixPkg

\* A navigate trigger has just been handled, with nav.text in the bar.
Navigated == nav.op = "navigate"

\* Empty or whitespace-only.
IsBlank(t) == \A i \in 1..Len(t) : t[i] = " "

\* No whitespace at either end.
Trimmed(t) == t = <<>> \/ (t[1] # " " /\ t[Len(t)] # " ")

HasUrlPrefix(t) ==
    StartsWith(t, S_httpSS) \/ StartsWith(t, S_httpsSS) \/ StartsWith(t, S_www)

\* The value of the first query parameter: up to the first "&" or "#".
RECURSIVE ParamValue(_)
ParamValue(q) ==
    IF q = <<>> \/ Head(q) \in {"&", "#"} THEN <<>>
    ELSE <<Head(q)>> \o ParamValue(Tail(q))

\* Query-string decoding: "+" and "%20" are a space.
RECURSIVE FormDecode(_)
FormDecode(q) ==
    IF q = <<>> THEN <<>>
    ELSE IF Head(q) = "+" THEN <<" ">> \o FormDecode(Tail(q))
    ELSE IF Len(q) >= 3 /\ SubSeq(q, 1, 3) = <<"%", "2", "0">>
         THEN <<" ">> \o FormDecode(SubSeq(q, 4, Len(q)))
    ELSE <<Head(q)>> \o FormDecode(Tail(q))

\* The query text the search engine receives from search URL u.
ReceivedQuery(u) ==
    FormDecode(ParamValue(SubSeq(QUrlToEncoded(u), Len(SearchPrefix) + 1,
                                 Len(QUrlToEncoded(u)))))

C2_PrefixedIsDirect ==
    Navigated /\ Trimmed(nav.text) /\ nav.loads # <<>> =>
        /\ (StartsWith(nav.text, S_httpSS) \/ StartsWith(nav.text, S_httpsSS))
             => nav.loads = <<nav.text>>
        /\ StartsWith(nav.text, S_www) => nav.loads = <<S_httpsSS \o nav.text>>

\* C3: a text without URL prefix that holds a space or no dot is loaded as
\* the search URL, and the query the search engine decodes from it is the
\* text typed.
C3_SearchQueryIsTypedText ==
    /\ Navigated /\ Trimmed(nav.text) /\ ~IsBlank(nav.text)
    /\ ~HasUrlPrefix(nav.text)
    /\ (Contains(nav.text, " ") \/ ~Contains(nav.text, "."))
    => /\ Len(nav.loads) = 1
       /\ StartsWith(nav.loads[1], SearchPrefix)
       /\ ReceivedQuery(nav.loads[1]) = nav.text

\* C4: a non-empty text without URL prefix, without space and with a dot
\* is loaded as https:// followed by the text, not as a search.
C4_BareDomainIsDirect ==
    /\ Navigated /\ nav.text # <<>> /\ ~HasUrlPrefix(nav.text)
    /\ ~Contains(nav.text, " ") /\ Contains(nav.text, ".")
    /\ nav.loads # <<>>
    => nav.loads = <<S_httpsSS \o nav.text>>

BodyPoint(p, sz) ==
    /\ p.x > ResizeMargin /\ sz.w - p.x > ResizeMargin
    /\ p.y > ResizeMargin /\ sz.h - p.y > ResizeMargin

\* p is within the margin of an edge.
MarginPoint(p, sz) ==
    \/ p.x < ResizeMargin \/ sz.w - p.x < ResizeMargin
    \/ p.y < ResizeMargin \/ sz.h - p.y < ResizeMargin

\* p is exactly the margin away from an edge.
BoundaryPoint(p, sz) ==
    \/ p.x = ResizeMargin \/ sz.w - p.x = ResizeMargin
    \/ p.y = ResizeMargin \/ sz.h - p.y = ResizeMargin

\* The last event was a left pointer-down.
LeftPress == ev.type = "press" /\ ev.left

\* The last event was a pointer-move with the left button held, in a gesture
\* that a left pointer-down started and nothing has ended.
GestureMove ==
    ev.type = "move" /\ ev.left /\ gesture.state = "active" /\ gesture.moves >= 1

\* C6: in a drag gesture started in the body at pointer gesture.ptr with
\* the origin at gesture.origin, after each move the origin is the origin
\* at pointer-down plus the pointer's displacement since pointer-down.
C6_DragFollowsPointer ==
    GestureMove /\ BodyPoint(gesture.p, gesture.size) =>
        pos = PtAdd(gesture.origin, PtSub(gesture.last, gesture.ptr))

\* C7: in a resize gesture started within the margin, each move by (dx, dy)
\* since the previous event sets the size to max(minimum, size + delta);
\* and the size is never below the minimum.
C7_ResizeFollowsDelta ==
    /\ size.w >= MinimumWidth /\ size.h >= MinimumHeight
    /\ GestureMove /\ MarginPoint(gesture.p, gesture.size) =>
         /\ size.w = Max(MinimumWidth,
                         pre.size.w + (gesture.last.x - gesture.prev.x))
         /\ size.h = Max(MinimumHeight,
                         pre.size.h + (gesture.last.y - gesture.prev.y))

\* C8: a pointer-up, or a pointer-move without the left button held, clears
\* the resizing flag and does not raise; and once it has ended a gesture no
\* pointer-move moves or resizes the window until the next left
\* pointer-down.
C8_ReleaseReturnsToIdle ==
    /\ (ev.type = "release" \/ (ev.type = "move" /\ ~ev.left)) =>
          ~resizing /\ ~ev.raised
    /\ gesture.state = "ended" /\ ev.type = "move" =>
          pos = pre.pos /\ size = pre.size

C10_PressStartsFreshGesture ==
    /\ LeftPress /\ BodyPoint(ev.p, pre.size) => ~resizing
    /\ LeftPress /\ MarginPoint(ev.p, pre.size) => resizing
    /\ GestureMove /\ BodyPoint(gesture.p, gesture.size) => size = pre.size

\* -------------------------------------- web-view notifications: properties

\* A URL-changed notification has just been handled by the slot connected
\* to it.
UrlChanged == nav.op = "urlChanged"

\* C11: after every URL-changed notification the address-bar text is the
\* new URL, and the back and forward buttons are enabled exactly when the
\* view answers canGoBack() and canGoForward() at that moment.
C11_UrlChangedSyncsBarAndButtons ==
    UrlChanged =>
        /\ address_bar = QUrlToString(nav.url)
        /\ back_btn = nav.can[1]
        /\ forward_btn = nav.can[2]

\* C12: every URL-changed notification appends its URL to the history log,
\* so after the notification the log holds an entry for that URL.
C12_UrlChangedIsLogged ==
    UrlChanged =>
        \E i \in 1..Len(ReadLog(history_file)) :
            \E k \in 1..Len(ReadLog(history_file)[i].entries) :
                ReadLog(history_file)[i].entries[k].url = nav.url

\* The URLs a navigate trigger hands to the view when the bar holds text
\* and the URL built from it is valid.
WouldLoad(text) ==
    IF impl = "main"
    THEN IF EmptyInput(Strip(text)) THEN <<>>
         ELSE <<ResolveMain(Strip(text))>>
    ELSE <<ResolvePkg(text)>>

\* A load-failed notification (loadFinished with ok = False) has just been
\* handled.
LoadFailed == nav.op = "loadFinished" /\ ~nav.ok

\* C14: a load-failed notification leaves the navigation state as it was:
\* the URL a following navigate trigger would load and the enabled flags of
\* the back and forward buttons are those of just before the notification.
C14_LoadFailedKeepsNavigation ==
    LoadFailed =>
        /\ WouldLoad(address_bar) = WouldLoad(nav.text)
        /\ <<back_btn, forward_btn>> = nav.was

\* C17: in main.py a navigate trigger on a text that a notification handler
\* wrote last (update_address_bar, handle_load_progress, on_load_finished)
\* loads the URL of the page the view is on.
C17_ShellTextReloadsPage ==
    impl = "main" /\ Navigated /\ nav.by = "shell" =>
        /\ Len(nav.loads) = 1
        /\ QUrlToEncoded(nav.loads[1]) = view_url

\* ------------------------------------------------- history log: properties

\* Number of times e occurs in the sequence es.
Count(es, e) == Cardinality({k \in 1..Len(es) : es[k] = e})

\* The subsequence of the entries of es dated d.
RECURSIVE OfDay(_, _)
OfDay(es, d) ==
    IF es = <<>> THEN <<>>
    ELSE (IF DateOf(Head(es).timestamp) = d THEN <<Head(es)>> ELSE <<>>)
           \o OfDay(Tail(es), d)

\* C13: for appends issued in any order the dates are unique keys of the
\* log, and the entries stored under each date are sorted ascending by
\* timestamp and are exactly the entries appended with that date.
C13_DaysSortedAndComplete ==
    LET log == ReadLog(history_file) IN
        /\ \A i, j \in 1..Len(log) : log[i].date = log[j].date => i = j
        /\ \A i \in 1..Len(log) :
             \A k \in 1..(Len(log[i].entries) - 1) :
                TsLeq(log[i].entries[k].timestamp,
                      log[i].entries[k + 1].timestamp)
        /\ \A d \in Days :
             /\ Len(EntriesOf(log, d)) = Len(OfDay(appended, d))
             /\ \A k \in 1..Len(appended) :
                  DateOf(appended[k].timestamp) = d =>
                      Count(EntriesOf(log, d), appended[k])
                          = Count(appended, appended[k])

\* Three entries of one day were appended latest first and are stored
\* earliest first.
C13_Witness ==
    /\ Len(appended) = 3
    /\ \A k \in 1..2 :
         /\ DateOf(appended[k].timestamp) = DateOf(appended[k + 1].timestamp)
         /\ ~TsLeq(appended[k].timestamp, appended[k + 1].timestamp)
    /\ ReadLog(history_file)[1].entries
         = <<appended[3], appended[2], appended[1]>>

\* A left pointer-move has just been handled by main.py's drag branch
\* (Dragging) or by its resize branch (Resizing).
MainMoveDragging == impl = "main" /\ ev.type = "move" /\ ev.left /\ ~pre.resizing
MainMoveResizing == impl = "main" /\ ev.type = "move" /\ ev.left /\ pre.resizing

\* C15: in main.py a pointer-move handled in Dragging leaves the size as it
\* was, a pointer-move handled in Resizing leaves the origin as it was,
\* whichever edge the gesture began on, and pointer-down and pointer-up
\* change neither origin nor size.
C15_MoveChangesOriginOrSize ==
    /\ MainMoveDragging => size = pre.size
    /\ MainMoveResizing => pos = pre.pos
    /\ impl = "main" /\ ev.type \in {"press", "release"} =>
           pos = pre.pos /\ size = pre.size

\* A resize that began at the left edge has changed the width, and the
\* origin is where it was.
C15_Witness ==
    /\ MainMoveResizing
    /\ gesture.state = "active"
    /\ gesture.p.x < ResizeMargin
    /\ size.w # pre.size.w
    /\ pos = pre.pos

\* The gesture in progress began with a pointer-down in main.py's resize
\* area, and none of its steps was held at the minimum size.
UnclampedResizeGesture ==
    /\ impl = "main"
    /\ GestureMove
    /\ InResizeAreaMain(gesture.p, gesture.size)
    /\ ~gesture.clamped

\* C16: in main.py, during a resize gesture without a clamped step, the size
\* is the size at pointer-down plus the pointer's displacement since then,
\* however many moves were delivered on the way.
C16_ResizeSumsDisplacement ==
    UnclampedResizeGesture =>
        size = Sz(gesture.size.w + (gesture.last.x - gesture.ptr.x),
                  gesture.size.h + (gesture.last.y - gesture.ptr.y))

\* After a move away and a move back to where the pointer went down, the
\* window has the size it had at pointer-down.
C16_Witness ==
    /\ UnclampedResizeGesture
    /\ gesture.moves = 2
    /\ gesture.prev # gesture.ptr
    /\ gesture.last = gesture.ptr
    /\ pre.size # gesture.size
    /\ size = gesture.size
====
